---- MODULE Spec2Model ----
(***************************************************************************)
(* A model of src/src/data/code2ast.py of multilingual-ast-probe: the      *)
(* constituency graph built from a parse tree, the string collapser, the   *)
(* dependency-tree extractor, the distance-matrix codec, the simplifier    *)
(* passes and the attachment score.                                        *)
(*                                                                         *)
(* A networkx DiGraph is a record                                          *)
(*   nodes : the node ids (nodes are only ever added in increasing id      *)
(*           order, so networkx's insertion order is the id order),        *)
(*   attr  : node -> [type, is_terminal, start, end],                      *)
(*   succ  : node -> the sequence of successors, in insertion order,       *)
(*   pred  : node -> the sequence of predecessors, in insertion order,     *)
(*   label : edge <<u, v>> -> the edge's 'label' attribute.                *)
(* A label is the sequence of the parts that the code joins with '-';      *)
(* the empty sequence is an edge without the 'label' key.                  *)
(***************************************************************************)
EXTENDS Integers, Sequences, FiniteSets, TLC

\* Bounds of the model.
MaxNodes == 5
MaxSpecial == 2
MaxZeroWidth == 1
MaxIters == 5
MaxLabelled == 2

\* Python's None, as a node id no graph holds.
None == -1

DefaultInner == "A"
DefaultLeaf == "tok"
StringTypes == {"string", "interpreted_string_literal"}
SpecialTypes == {"B"} \cup StringTypes
\* The type of a syntax error node, and of Go's newline token.
ErrorType == "ERROR"
NewLine == "\n"
\* The label an edge of a graph given to the simplifier carries: the type of
\* a node removed before.
EdgeLabels == {<<"B">>}

VARIABLES prim, lang, G, pc, err, has_err, alt, alt_dep, head, dep, dist, mst, uas, g1, g2, r0, r, conf, iters

vars == <<prim, lang, G, pc, err, has_err, alt, alt_dep, head, dep, dist, mst, uas, g1, g2, r0, r, conf, iters>>

----------------------------------------------------------------------------
\* Sequences and sets.

Min(S) == CHOOSE x \in S : \A y \in S : x <= y

Max(S) == CHOOSE x \in S : \A y \in S : y <= x

Range(s) == {s[i] : i \in 1..Len(s)}

RECURSIVE SortedSeq(_)
SortedSeq(S) == IF S = {} THEN <<>> ELSE <<Min(S)>> \o SortedSeq(S \ {Min(S)})

\* The orders a list of the elements of S can be in.
Orders(S) ==
    {s \in [1..Cardinality(S) -> S] : \A i, j \in 1..Cardinality(S) : i # j => s[i] # s[j]}

RECURSIVE Sum(_, _)
Sum(f, S) == IF S = {} THEN 0 ELSE LET x == CHOOSE y \in S : TRUE IN f[x] + Sum(f, S \ {x})

----------------------------------------------------------------------------
\* The parser's primitive tree: nodes 0..n-1 in document (pre-)order, par the
\* parent of each node but the root, type the grammar's node type, width the
\* byte length of each leaf token.  Spans follow from the widths.

RECURSIVE PrimAnc(_, _)
PrimAnc(par, i) == IF i = 0 THEN {0} ELSE {i} \cup PrimAnc(par, par[i])

PrimShapes(n) ==
    {par \in [1..(n-1) -> 0..(n-1)] :
        \A i \in 1..(n-1) : /\ par[i] < i
                            /\ i > 1 => par[i] \in PrimAnc(par, i-1)}

PrimChildren(p, i) == SortedSeq({j \in 1..(p.n-1) : p.par[j] = i})

PrimLeaves(p) == {i \in 0..(p.n-1) : PrimChildren(p, i) = <<>>}

PrimDesc(p, i) == {j \in 0..(p.n-1) : i \in PrimAnc(p.par, j)}

PrimStart(p, i) == Sum(p.width, {j \in PrimLeaves(p) : j < i})

PrimEnd(p, i) == PrimStart(p, i) + Sum(p.width, PrimLeaves(p) \cap PrimDesc(p, i))

PrimTypes(n, par, specials) ==
    LET leaf(i) == \A j \in 1..(n-1) : par[j] # i
        dflt(i) == IF leaf(i) THEN DefaultLeaf ELSE DefaultInner
    IN  {t \in [0..(n-1) -> specials \cup {DefaultInner, DefaultLeaf}] :
            /\ \A i \in 0..(n-1) : t[i] \in specials \cup {dflt(i)}
            /\ Cardinality({i \in 0..(n-1) : t[i] # dflt(i)}) <= MaxSpecial}

PrimWidths(n, par) ==
    LET leaves == {i \in 0..(n-1) : \A j \in 1..(n-1) : par[j] # i}
    IN  {w \in [leaves -> {0, 1}] :
            Cardinality({i \in leaves : w[i] = 0}) <= MaxZeroWidth}

----------------------------------------------------------------------------
\* networkx.DiGraph

EmptyGraph ==
    [nodes |-> {}, attr |-> [x \in {} |-> 0], succ |-> [x \in {} |-> <<>>],
     pred |-> [x \in {} |-> <<>>], label |-> [e \in {} |-> <<>>]]

add_node(g, id, a) ==
    [g EXCEPT !.nodes = @ \cup {id},
              !.attr = (id :> a) @@ @,
              !.succ = (id :> <<>>) @@ @,
              !.pred = (id :> <<>>) @@ @]

\* add_edge(u, v) without a label (lab = <<>>) leaves an existing edge's label.
add_edge(g, u, v, lab) ==
    IF <<u, v>> \in DOMAIN g.label
    THEN IF lab = <<>> THEN g ELSE [g EXCEPT !.label[<<u, v>>] = lab]
    ELSE [g EXCEPT !.succ[u] = Append(@, v),
                   !.pred[v] = Append(@, u),
                   !.label = (<<u, v>> :> lab) @@ @]

remove_node(g, n) ==
    LET keep == g.nodes \ {n}
    IN  [nodes |-> keep,
         attr |-> [x \in keep |-> g.attr[x]],
         succ |-> [x \in keep |-> SelectSeq(g.succ[x], LAMBDA y : y # n)],
         pred |-> [x \in keep |-> SelectSeq(g.pred[x], LAMBDA y : y # n)],
         label |-> [e \in {e \in DOMAIN g.label : e[1] # n /\ e[2] # n} |-> g.label[e]]]

RECURSIVE remove_nodes_from(_, _)
remove_nodes_from(g, ns) ==
    IF ns = <<>> THEN g
    ELSE remove_nodes_from(IF Head(ns) \in g.nodes THEN remove_node(g, Head(ns)) ELSE g,
                           Tail(ns))

\* The nodes in iteration order ("for n in G").
NodeList(g) == SortedSeq(g.nodes)

Edges(g) == DOMAIN g.label

\* Breadth-first order from a source, the key order of
\* nx.single_source_shortest_path_length and nx.single_source_shortest_path.
RECURSIVE bfs_levels(_, _, _)
bfs_levels(g, seen, level) ==
    IF level = <<>> THEN seen
    ELSE LET RECURSIVE nextlevel(_, _, _)
             nextlevel(vs, ws, acc) ==
                 IF vs = <<>> THEN acc
                 ELSE IF ws = <<>>
                      THEN IF Len(vs) = 1 THEN acc
                           ELSE nextlevel(Tail(vs), g.succ[vs[2]], acc)
                      ELSE nextlevel(vs, Tail(ws),
                                     IF Head(ws) \in Range(seen) \cup Range(acc)
                                     THEN acc ELSE Append(acc, Head(ws)))
             nxt == nextlevel(level, g.succ[Head(level)], <<>>)
         IN  bfs_levels(g, seen \o nxt, nxt)

single_source_shortest_path_length(g, source) == bfs_levels(g, <<source>>, <<source>>)

----------------------------------------------------------------------------
\* Constituency graph builder.

get_id(g) == IF g.nodes = {} THEN 0 ELSE Max(g.nodes) + 1

\* get_graph_from_tree(node, G, id_father): children is what is left of
\* node.children in the for loop.
RECURSIVE get_graph_from_tree(_, _, _, _)
get_graph_from_tree(p, children, g, id_father) ==
    IF children = <<>> THEN g
    ELSE LET child == Head(children)
             is_terminal_child == (PrimChildren(p, child) = <<>>)
             id_child == get_id(g)
             gn == add_node(g, id_child,
                            [type |-> p.type[child], is_terminal |-> is_terminal_child,
                             start |-> PrimStart(p, child), end |-> PrimEnd(p, child)])
             ge == add_edge(gn, id_father, id_child, <<>>)
             gc == get_graph_from_tree(p, PrimChildren(p, child), ge, id_child)
         IN  get_graph_from_tree(p, Tail(children), gc, id_father)

\* The part of code2ast every language branch shares: the root, then the walk.
build_graph(p) ==
    LET g == add_node(EmptyGraph, 0,
                      [type |-> p.type[0], is_terminal |-> FALSE,
                       start |-> PrimStart(p, 0), end |-> PrimEnd(p, 0)])
    IN  get_graph_from_tree(p, PrimChildren(p, 0), g, 0)

\* 'string_literal' in type, over the grammar's node types.
contains_string_literal(t) == t \in {"string_literal", "interpreted_string_literal", "raw_string_literal"}

is_string_node(g, n) ==
    /\ g.attr[n].type = "string" \/ contains_string_literal(g.attr[n].type)
    /\ ~g.attr[n].is_terminal

\* collapse_string removing the children of n only, not all that is below it.
collapse_string_children(g, n) ==
    IF n \notin g.nodes THEN g
    ELSE LET gr == remove_nodes_from(g, g.succ[n])
         IN  [gr EXCEPT !.attr[n].is_terminal = TRUE]

\* The body of the loop of solve_string_problems for one n of strings.
collapse_string(g, n) ==
    IF n \notin g.nodes THEN g
    ELSE LET below == SelectSeq(single_source_shortest_path_length(g, n), LAMBDA v : v # n)
             gr == remove_nodes_from(g, below)
         IN  [gr EXCEPT !.attr[n].is_terminal = TRUE]

\* The loop of solve_string_problems leaving after its first pass.
solve_strings_first_only(g, strings) ==
    IF strings = <<>> THEN g ELSE collapse_string(g, Head(strings))

RECURSIVE solve_strings_in_order(_, _)
solve_strings_in_order(g, strings) ==
    IF strings = <<>> THEN g
    ELSE solve_strings_in_order(collapse_string(g, Head(strings)), Tail(strings))

solve_string_problems(g) ==
    solve_strings_in_order(g, SelectSeq(NodeList(g), LAMBDA n : is_string_node(g, n)))

remove_new_line_tokens(g) ==
    LET to_remove == SelectSeq(NodeList(g), LAMBDA n : g.attr[n].type = NewLine)
    IN  remove_nodes_from(g, to_remove)

\* The steps of code2ast before solve_string_problems: every language branch
\* builds the graph alike, and the branch of 'go' removes the newline tokens.
code2ast_branch(p, l) ==
    IF l = "go" THEN remove_new_line_tokens(build_graph(p)) ELSE build_graph(p)

has_error(g) == \E n \in g.nodes : g.attr[n].type = ErrorType

----------------------------------------------------------------------------
\* Dependency-tree extractor.

\* list(...)[0] on an empty list.
IndexError == -2

\* sorted(s, key=start): Python's sort is stable.
RECURSIVE sorted_by_start(_, _)
sorted_by_start(g, s) ==
    IF s = <<>> THEN <<>>
    ELSE LET m == Min({g.attr[s[i]].start : i \in 1..Len(s)})
             k == Min({i \in 1..Len(s) : g.attr[s[i]].start = m})
         IN  <<s[k]>> \o sorted_by_start(g, SubSeq(s, 1, k-1) \o SubSeq(s, k+1, Len(s)))

\* get_candidate with "<=" for "<" in the filter of the nodes to the left.
get_candidate_le(g, level, start) ==
    LET reachable == single_source_shortest_path_length(g, level)
        terminals == SelectSeq(reachable, LAMBDA n : g.attr[n].is_terminal)
        left == SelectSeq(terminals, LAMBDA n : g.attr[n].start <= start)
    IN  IF Len(left) = 0 THEN None ELSE sorted_by_start(g, left)[1]

\* get_candidate returning nodes[-1], the nearest terminal to the left.
get_candidate_nearest(g, level, start) ==
    LET reachable == single_source_shortest_path_length(g, level)
        terminals == SelectSeq(reachable, LAMBDA n : g.attr[n].is_terminal)
        left == SelectSeq(terminals, LAMBDA n : g.attr[n].start < start)
    IN  IF Len(left) = 0 THEN None ELSE sorted_by_start(g, left)[Len(left)]

get_candidate(g, level, start) ==
    LET reachable == single_source_shortest_path_length(g, level)
        terminals == SelectSeq(reachable, LAMBDA n : g.attr[n].is_terminal)
        left == SelectSeq(terminals, LAMBDA n : g.attr[n].start < start)
    IN  IF Len(left) = 0 THEN None ELSE sorted_by_start(g, left)[1]

RECURSIVE select_head_from(_, _, _)
select_head_from(g, father, start) ==
    LET cand == get_candidate(g, father, start)
    IN  IF cand # None THEN cand
        ELSE IF g.pred[father] = <<>> THEN IndexError
        ELSE select_head_from(g, g.pred[father][1], start)

select_head(g, n) ==
    IF g.pred[n] = <<>> THEN IndexError
    ELSE select_head_from(g, g.pred[n][1], g.attr[n].start)

get_root_dep_tree(g) ==
    LET terminals == SelectSeq(NodeList(g), LAMBDA n : g.attr[n].is_terminal)
    IN  IF terminals = <<>> THEN IndexError ELSE sorted_by_start(g, terminals)[1]

\* enrich_in_order adding the edge from the terminal to its head, G.add_edge(n, h).
RECURSIVE enrich_in_order_reversed(_, _)
enrich_in_order_reversed(g, nodes) ==
    IF nodes = <<>> THEN [g |-> g, err |-> "none"]
    ELSE LET h == select_head(g, Head(nodes))
         IN  IF h = IndexError THEN [g |-> g, err |-> "IndexError"]
             ELSE enrich_in_order_reversed(add_edge(g, Head(nodes), h, <<"dependency">>),
                                           Tail(nodes))

\* The for loop of enrich_ast_with_deps over what is left of nodes; an
\* exception leaves the edges added so far in G.
RECURSIVE enrich_in_order(_, _)
enrich_in_order(g, nodes) ==
    IF nodes = <<>> THEN [g |-> g, err |-> "none"]
    ELSE LET h == select_head(g, Head(nodes))
         IN  IF h = IndexError THEN [g |-> g, err |-> "IndexError"]
             ELSE enrich_in_order(add_edge(g, h, Head(nodes), <<"dependency">>), Tail(nodes))

enrich_ast_with_deps(g) ==
    LET root == get_root_dep_tree(g)
    IN  IF root = IndexError THEN [g |-> g, err |-> "IndexError"]
        ELSE enrich_in_order(g, SelectSeq(NodeList(g),
                                          LAMBDA n : root # n /\ g.attr[n].is_terminal))

\* filter_edge of get_dependency_tree: the label, or 'dependency' for an edge
\* without one, taken as a truth value.
filter_edge(g, u, v) ==
    (IF g.label[<<u, v>>] = <<>> THEN <<"dependency">> ELSE g.label[<<u, v>>]) # <<>>

get_dependency_tree(g) ==
    LET keep == {n \in g.nodes : g.attr[n].is_terminal}
        ok(u, v) == u \in keep /\ v \in keep /\ filter_edge(g, u, v)
    IN  [nodes |-> keep,
         attr |-> [x \in keep |-> g.attr[x]],
         succ |-> [x \in keep |-> SelectSeq(g.succ[x], LAMBDA y : ok(x, y))],
         pred |-> [x \in keep |-> SelectSeq(g.pred[x], LAMBDA y : ok(y, x))],
         label |-> [e \in {e \in DOMAIN g.label : ok(e[1], e[2])} |-> g.label[e]]]

----------------------------------------------------------------------------
\* Distance-matrix codec.

\* numpy's inf, the distance of two nodes no path joins.
inf == 1000

\* nx.floyd_warshall_numpy(nx.Graph(T), nodelist): matrices are indexed from 0.
RECURSIVE floyd_warshall(_, _, _)
floyd_warshall(d, n, k) ==
    IF k = n THEN d
    ELSE floyd_warshall([i \in 0..(n-1) |-> [j \in 0..(n-1) |->
                            IF d[i][k] + d[k][j] < d[i][j] THEN d[i][k] + d[k][j] ELSE d[i][j]]],
                        n, k + 1)

floyd_warshall_numpy(t, nodelist) ==
    LET n == Len(nodelist)
        adj(u, v) == <<u, v>> \in DOMAIN t.label \/ <<v, u>> \in DOMAIN t.label
        d0 == [i \in 0..(n-1) |-> [j \in 0..(n-1) |->
                  IF i = j THEN 0
                  ELSE IF adj(nodelist[i+1], nodelist[j+1]) THEN 1 ELSE inf]]
    IN  floyd_warshall(d0, n, 0)

\* A token is the text of its byte span; the model keeps the span.
get_token(start, end) == <<start, end>>

get_tokens_dep(t) ==
    LET order == sorted_by_start(t, NodeList(t))
    IN  [i \in 1..Len(order) |-> get_token(t.attr[order[i]].start, t.attr[order[i]].end)]

get_matrix_and_tokens_dep(t) ==
    [distance |-> floyd_warshall_numpy(t, sorted_by_start(t, NodeList(t))),
     tokens |-> get_tokens_dep(t)]

\* The edges of the complete graph of get_tree_from_distances in the order of
\* G.edges: (i, j), i <= j, each with the weight written last, distances[j][i].
RECURSIVE complete_edges(_, _, _, _)
complete_edges(distances, n, i, j) ==
    IF i >= n THEN <<>>
    ELSE IF j >= n THEN complete_edges(distances, n, i + 1, i + 1)
    ELSE <<[u |-> i, v |-> j, weight |-> distances[j][i]]>>
         \o complete_edges(distances, n, i, j + 1)

\* sorted(edges, key=weight, reverse=True): a maximum spanning tree.
RECURSIVE sorted_by_weight_desc(_)
sorted_by_weight_desc(es) ==
    IF es = <<>> THEN <<>>
    ELSE LET m == Max({es[i].weight : i \in 1..Len(es)})
             k == Min({i \in 1..Len(es) : es[i].weight = m})
         IN  <<es[k]>> \o sorted_by_weight_desc(SubSeq(es, 1, k-1) \o SubSeq(es, k+1, Len(es)))

\* sorted(edges, key=weight), stable.
RECURSIVE sorted_by_weight(_)
sorted_by_weight(es) ==
    IF es = <<>> THEN <<>>
    ELSE LET m == Min({es[i].weight : i \in 1..Len(es)})
             k == Min({i \in 1..Len(es) : es[i].weight = m})
         IN  <<es[k]>> \o sorted_by_weight(SubSeq(es, 1, k-1) \o SubSeq(es, k+1, Len(es)))

\* Kruskal's algorithm of nx.minimum_spanning_tree: comp is the union-find
\* structure, as the component representative of every node.
RECURSIVE kruskal(_, _, _)
kruskal(es, comp, acc) ==
    IF es = <<>> THEN acc
    ELSE LET e == Head(es)
         IN  IF comp[e.u] # comp[e.v]
             THEN kruskal(Tail(es),
                          [x \in DOMAIN comp |-> IF comp[x] = comp[e.v] THEN comp[e.u] ELSE comp[x]],
                          Append(acc, e))
             ELSE kruskal(Tail(es), comp, acc)

minimum_spanning_tree(n, es) ==
    [nodes |-> 0..(n-1),
     edges |-> kruskal(sorted_by_weight(es), [x \in 0..(n-1) |-> x], <<>>)]

get_tree_from_distances(distances, tokens) ==
    minimum_spanning_tree(Len(tokens), complete_edges(distances, Len(tokens), 0, 0))

----------------------------------------------------------------------------
\* Comparator.

has_edge(t, s, d) == \E k \in 1..Len(t.edges) :
    \/ t.edges[k].u = s /\ t.edges[k].v = d
    \/ t.edges[k].u = d /\ t.edges[k].v = s

\* get_uas: the quotient float(count) / float(i) is kept as the pair.
get_uas(T_true, T_pred) ==
    IF Cardinality(T_true.nodes) # Cardinality(T_pred.nodes)
       \/ Len(T_true.edges) # Len(T_pred.edges)
    THEN [err |-> "AssertionError", count |-> 0, i |-> 0]
    ELSE LET count == Cardinality({k \in 1..Len(T_pred.edges) :
                                      has_edge(T_true, T_pred.edges[k].u, T_pred.edges[k].v)})
             i == Len(T_pred.edges)
         IN  IF i = 0 THEN [err |-> "ZeroDivisionError", count |-> count, i |-> i]
             ELSE [err |-> "none", count |-> count, i |-> i]

----------------------------------------------------------------------------
\* Tree simplifier.

\* has_terminals counting every child, terminal or not.
has_children(g, n) ==
    LET l == g.succ[n]
    IN  IF Len(l) = 0 THEN FALSE ELSE TRUE

has_terminals(g, n) ==
    LET l == SelectSeq(g.succ[n], LAMBDA v : g.attr[v].is_terminal)
    IN  IF Len(l) = 0 THEN FALSE ELSE TRUE

\* The list both the while condition and the choice of n are taken from.
useless_non_terminals(g) ==
    SelectSeq(NodeList(g), LAMBDA n : ~has_terminals(g, n) /\ ~g.attr[n].is_terminal)

\* The for loop over edges_out: label is one variable that each child's label
\* is appended to and that the next child starts from.
RECURSIVE rewire_children(_, _, _, _, _, _)
rewire_children(g, g0, n, u, edges_out, label) ==
    IF edges_out = <<>> THEN g0
    ELSE LET v == Head(edges_out)
             label1 == IF g.label[<<n, v>>] # <<>> THEN label \o g.label[<<n, v>>] ELSE label
         IN  rewire_children(g, add_edge(g0, u, v, label1), n, u, Tail(edges_out), label1)

\* One pass of the while loop of remove_useless_non_terminals.
remove_first_useless(g) ==
    LET n == useless_non_terminals(g)[1]
        edges_in == g.pred[n]
        edges_out == g.succ[n]
        label == <<g.attr[n].type>>
        g0 == IF Len(edges_in) # 0
              THEN LET u == edges_in[1]
                       label1 == IF g.label[<<u, n>>] # <<>>
                                 THEN g.label[<<u, n>>] \o label ELSE label
                   IN  rewire_children(g, g, n, u, edges_out, label1)
              ELSE g
    IN  remove_node(g0, n)

\* remove_useless_non_terminals with "if" for "while": a single pass.
remove_useless_once(g) ==
    IF Len(useless_non_terminals(g)) # 0 THEN remove_first_useless(g) ELSE g

RECURSIVE remove_useless_non_terminals(_)
remove_useless_non_terminals(g) ==
    IF Len(useless_non_terminals(g)) # 0
    THEN remove_useless_non_terminals(remove_first_useless(g))
    ELSE g

has_just_terminals(g, n) ==
    LET l1 == SelectSeq(g.succ[n], LAMBDA v : g.attr[v].is_terminal)
        l2 == SelectSeq(g.succ[n], LAMBDA v : ~g.attr[v].is_terminal)
    IN  Len(l1) > 0 /\ Len(l2) = 0

\* get_left_most_node returning nodes[-1].
get_left_most_node_last(g, n) ==
    LET nodes == sorted_by_start(g, g.succ[n]) IN nodes[Len(nodes)]

get_left_most_node(g, n) == sorted_by_start(g, g.succ[n])[1]

\* conf=None, or a conf without the type.
NoConf == [t \in {} |-> ""]

\* A rule a caller registers in conf: the child that starts last.
get_right_most_node(g, n) ==
    LET nodes == sorted_by_start(g, g.succ[n]) IN nodes[Len(nodes)]

promoted_child(g, n, cf) ==
    LET type_nt == g.attr[n].type
    IN  IF type_nt \in DOMAIN cf THEN get_right_most_node(g, n)
        ELSE get_left_most_node(g, n)

RECURSIVE attach_siblings(_, _, _, _, _)
attach_siblings(g, g0, n, m, edges_out) ==
    IF edges_out = <<>> THEN g0
    ELSE LET v == Head(edges_out)
             label == IF g.label[<<n, v>>] # <<>>
                      THEN <<g.attr[n].type>> \o g.label[<<n, v>>]
                      ELSE <<g.attr[n].type>>
         IN  attach_siblings(g, IF v # m THEN add_edge(g0, m, v, label) ELSE g0,
                             n, m, Tail(edges_out))

\* The body of "for n in g" of remplace_non_terminals: g is read, g0 written.
replace_node(g, g0, n, cf) ==
    IF g.attr[n].is_terminal THEN g0
    ELSE IF ~has_just_terminals(g, n) THEN g0
    ELSE LET m == promoted_child(g, n, cf)
             edges_in == g.pred[n]
             ga == IF Len(edges_in) # 0
                   THEN add_edge(g0, edges_in[1], m, g.label[<<edges_in[1], n>>])
                   ELSE g0
             gb == attach_siblings(g, ga, n, m, g.succ[n])
         IN  remove_node(gb, n)

RECURSIVE replace_nodes(_, _, _, _)
replace_nodes(g, g0, nodes, cf) ==
    IF nodes = <<>> THEN g0
    ELSE replace_nodes(g, replace_node(g, g0, Head(nodes), cf), Tail(nodes), cf)

\* One pass of the while loop of remplace_non_terminals.
remplace_iteration(g, cf) == replace_nodes(g, g, NodeList(g), cf)

NonTerminals(g) == {n \in g.nodes : ~g.attr[n].is_terminal}

----------------------------------------------------------------------------
\* The state machine.

\* A newline token is a token: it has no children.
InitWith(nmax, specials, langs) ==
    /\ \E n \in 1..nmax : \E par \in PrimShapes(n) :
          \E t \in PrimTypes(n, par, specials) : \E w \in PrimWidths(n, par) :
             /\ \A i \in 0..(n-1) : t[i] = NewLine => (\A j \in 1..(n-1) : par[j] # i)
             /\ prim = [n |-> n, par |-> par, type |-> t, width |-> w]
    /\ lang \in langs
    /\ has_err = FALSE
    /\ alt = [order |-> <<>>, g |-> EmptyGraph]
    /\ alt_dep = [order |-> <<>>, g |-> EmptyGraph, err |-> "none"]
    /\ G = EmptyGraph
    /\ pc = "parsed"
    /\ err = "none"
    /\ head = <<>>
    /\ dep = EmptyGraph
    /\ dist = <<>>
    /\ mst = <<>>
    /\ uas = <<>>
    /\ g1 = EmptyGraph
    /\ g2 = EmptyGraph
    /\ r0 = EmptyGraph
    /\ r = EmptyGraph
    /\ conf = <<>>
    /\ iters = 0

\* Every node type the model has.
Init == InitWith(MaxNodes, SpecialTypes, {"python"})

\* Parse trees for the dependency extractor, the codec and the comparator:
\* string literals, which the collapser turns into terminals.
InitDep == InitWith(MaxNodes, StringTypes, {"python"})

\* Parse trees for the simplifier: a second non-terminal type, which the
\* edge labels and the rules of conf tell from the first.
InitSimplify == InitWith(MaxNodes, {"B"}, {"python"})

\* Parse trees for the edge labels of the simplifier: a removed node with two
\* children, each of them kept, under a parent that is kept takes seven nodes.
InitLabels == InitWith(MaxNodes + 2, {}, {"python"})

\* Parse trees for the processing orders: string literals, nested or not.
InitOrder == InitWith(MaxNodes, {"string"}, {"python"})

\* Parse trees with syntax errors and string literals.
InitError == InitWith(MaxNodes, {ErrorType, "string"}, {"python"})

\* Parse trees of the two language branches that differ, with newline tokens
\* and string literals.
InitLang == InitWith(MaxNodes, {NewLine, "string"}, {"python", "go"})

\* code2ast up to the call of solve_string_problems.
BuildGraph ==
    /\ pc = "parsed"
    /\ G' = code2ast_branch(prim, lang)
    /\ pc' = "built"
    /\ UNCHANGED <<prim, lang, has_err, alt, alt_dep, err, head, dep, dist, mst, uas, g1, g2, r0, r, conf, iters>>

\* The loop of solve_string_problems on a copy of G, the list strings taken in
\* an order of its own.
SolveStringsReordered ==
    /\ pc = "built"
    /\ \E strings \in Orders({n \in G.nodes : is_string_node(G, n)}) :
          alt' = [order |-> strings, g |-> solve_strings_in_order(G, strings)]
    /\ pc' = "reordered"
    /\ UNCHANGED <<prim, lang, G, err, has_err, alt_dep, head, dep, dist, mst, uas, g1, g2, r0, r, conf, iters>>

\* solve_string_problems(G), and code2ast returns.
SolveStringProblems ==
    /\ pc \in {"built", "reordered"}
    /\ G' = solve_string_problems(G)
    /\ pc' = "ast"
    /\ UNCHANGED <<prim, lang, has_err, alt, alt_dep, err, head, dep, dist, mst, uas, g1, g2, r0, r, conf, iters>>

\* has_error(G) on the graph code2ast returned.
HasError ==
    /\ pc = "ast"
    /\ has_err' = has_error(G)
    /\ pc' = "checked"
    /\ UNCHANGED <<prim, lang, G, err, alt, alt_dep, head, dep, dist, mst, uas, g1, g2, r0, r, conf, iters>>

Terminals(g) == {n \in g.nodes : g.attr[n].is_terminal}

\* select_head(G, n) for a terminal n other than the dependency root.
SelectHead ==
    /\ pc = "ast"
    /\ \E n \in Terminals(G) \ {get_root_dep_tree(G)} :
          head' = [n |-> n, h |-> select_head(G, n)]
    /\ pc' = "head"
    /\ UNCHANGED <<prim, lang, has_err, alt, alt_dep, G, err, dep, dist, mst, uas, g1, g2, r0, r, conf, iters>>

\* The loop of enrich_ast_with_deps on a copy of G, the list nodes taken in an
\* order of its own.
EnrichReordered ==
    /\ pc = "ast"
    /\ LET root == get_root_dep_tree(G)
       IN  /\ root # IndexError
           /\ \E nodes \in Orders(Terminals(G) \ {root}) :
                 LET res == enrich_in_order(G, nodes)
                 IN  alt_dep' = [order |-> nodes, g |-> res.g, err |-> res.err]
    /\ pc' = "ast_reordered"
    /\ UNCHANGED <<prim, lang, G, err, has_err, alt, head, dep, dist, mst, uas, g1, g2, r0, r, conf, iters>>

\* enrich_ast_with_deps(G): G is changed in place.
Enrich ==
    /\ pc \in {"ast", "ast_reordered"}
    /\ LET res == enrich_ast_with_deps(G)
       IN  /\ G' = res.g
           /\ err' = res.err
           /\ pc' = IF res.err = "none" THEN "enriched" ELSE "failed"
    /\ UNCHANGED <<prim, lang, has_err, alt, alt_dep, head, dep, dist, mst, uas, g1, g2, r0, r, conf, iters>>

GetDependencyTree ==
    /\ pc = "enriched"
    /\ dep' = get_dependency_tree(G)
    /\ pc' = "dep"
    /\ UNCHANGED <<prim, lang, has_err, alt, alt_dep, G, err, head, dist, mst, uas, g1, g2, r0, r, conf, iters>>

GetMatrixAndTokensDep ==
    /\ pc = "dep"
    /\ dist' = get_matrix_and_tokens_dep(dep)
    /\ pc' = "matrix"
    /\ UNCHANGED <<prim, lang, has_err, alt, alt_dep, G, err, head, dep, mst, uas, g1, g2, r0, r, conf, iters>>

GetTreeFromDistances ==
    /\ pc = "matrix"
    /\ mst' = get_tree_from_distances(dist.distance, dist.tokens)
    /\ pc' = "mst"
    /\ UNCHANGED <<prim, lang, has_err, alt, alt_dep, G, err, head, dep, dist, uas, g1, g2, r0, r, conf, iters>>

\* get_uas(T, T) on the reconstructed tree.
GetUas ==
    /\ pc = "mst"
    /\ uas' = get_uas(mst, mst)
    /\ err' = uas'.err
    /\ pc' = IF uas'.err = "none" THEN "uas" ELSE "failed"
    /\ UNCHANGED <<prim, lang, has_err, alt, alt_dep, G, head, dep, dist, mst, g1, g2, r0, r, conf, iters>>

\* The graph remove_useless_non_terminals is given has labels on some edges:
\* the function reads g[u][n]['label'] and g[n][v]['label'].
ReceiveLabels ==
    /\ pc = "ast"
    /\ \E lab \in [Edges(G) -> {<<>>} \cup EdgeLabels] :
          /\ Cardinality({e \in Edges(G) : lab[e] # <<>>}) \in 1..MaxLabelled
          /\ G' = [G EXCEPT !.label = lab]
    /\ pc' = "labelled"
    /\ UNCHANGED <<prim, lang, err, has_err, alt, alt_dep, head, dep, dist, mst, uas, g1, g2, r0, r, conf, iters>>

\* g1 = remove_useless_non_terminals(G)
RemoveUseless ==
    /\ pc \in {"ast", "labelled"}
    /\ g1' = remove_useless_non_terminals(G)
    /\ pc' = "useless"
    /\ UNCHANGED <<prim, lang, has_err, alt, alt_dep, G, err, head, dep, dist, mst, uas, g2, r0, r, conf, iters>>

\* g2 = remove_useless_non_terminals(g1)
RemoveUselessAgain ==
    /\ pc = "useless"
    /\ g2' = remove_useless_non_terminals(g1)
    /\ pc' = "useless2"
    /\ UNCHANGED <<prim, lang, has_err, alt, alt_dep, G, err, head, dep, dist, mst, uas, g1, r0, r, conf, iters>>

\* remplace_non_terminals(G, conf) or remplace_non_terminals(g1, conf) is
\* called: g = G.copy().
RemplaceStart ==
    /\ pc \in {"ast", "useless"}
    /\ r0' = IF pc = "ast" THEN G ELSE g1
    /\ r' = r0'
    /\ conf' \in {NoConf, [t \in {"B"} |-> "rightmost"]}
    /\ iters' = 0
    /\ pc' = "remplace"
    /\ UNCHANGED <<prim, lang, has_err, alt, alt_dep, G, err, head, dep, dist, mst, uas, g1, g2>>

\* One pass of the while loop.
RemplaceIter ==
    /\ pc = "remplace"
    /\ NonTerminals(r) # {}
    /\ iters < MaxIters
    /\ r' = remplace_iteration(r, conf)
    /\ iters' = iters + 1
    /\ UNCHANGED <<prim, lang, has_err, alt, alt_dep, G, pc, err, head, dep, dist, mst, uas, g1, g2, r0, conf>>

\* The while condition is false: return g.
RemplaceReturn ==
    /\ pc = "remplace"
    /\ NonTerminals(r) = {}
    /\ pc' = "replaced"
    /\ UNCHANGED <<prim, lang, has_err, alt, alt_dep, G, err, head, dep, dist, mst, uas, g1, g2, r0, r, conf, iters>>

\* code2ast
NextBuild ==
    \/ BuildGraph
    \/ SolveStringProblems

\* code2ast, then has_error on what it returned.
NextError ==
    \/ BuildGraph
    \/ SolveStringProblems
    \/ HasError

\* code2ast and enrich_ast_with_deps, each beside a run of its loop in
\* another order.
NextOrder ==
    \/ BuildGraph
    \/ SolveStringsReordered
    \/ SolveStringProblems
    \/ EnrichReordered
    \/ Enrich

\* code2ast, then the dependency tree, its distance matrix, the tree rebuilt
\* from the matrix and its score.
NextDep ==
    \/ BuildGraph
    \/ SolveStringProblems
    \/ SelectHead
    \/ Enrich
    \/ GetDependencyTree
    \/ GetMatrixAndTokensDep
    \/ GetTreeFromDistances
    \/ GetUas

\* code2ast, then remove_useless_non_terminals on a graph with edge labels.
NextLabels ==
    \/ BuildGraph
    \/ SolveStringProblems
    \/ ReceiveLabels
    \/ RemoveUseless

\* code2ast, then the two simplifier passes.
NextSimplify ==
    \/ BuildGraph
    \/ SolveStringProblems
    \/ RemoveUseless
    \/ RemoveUselessAgain
    \/ RemplaceStart
    \/ RemplaceIter
    \/ RemplaceReturn

Next ==
    \/ NextError
    \/ NextLabels
    \/ NextOrder
    \/ NextDep
    \/ NextSimplify

SpecBuild == Init /\ [][NextBuild]_vars

SpecError == InitError /\ [][NextError]_vars

SpecLang == InitLang /\ [][NextBuild]_vars

SpecOrder == InitOrder /\ [][NextOrder]_vars

SpecDep == InitDep /\ [][NextDep]_vars

SpecLabels == InitLabels /\ [][NextLabels]_vars

SpecSimplify == InitSimplify /\ [][NextSimplify]_vars

Spec == Init /\ [][Next]_vars

----------------------------------------------------------------------------
\* Properties.  The tree structure they speak of is stated here on the edge
\* sets, apart from the operators above.

InDegree(g, n) == Cardinality({e \in Edges(g) : e[2] = n})

Children(g, n) == {e[2] : e \in {e \in Edges(g) : e[1] = n}}

RECURSIVE ReachableFrom(_, _)
ReachableFrom(g, S) ==
    LET nxt == S \cup UNION {Children(g, x) : x \in S}
    IN  IF nxt = S THEN S ELSE ReachableFrom(g, nxt)

HasCycle(g) == \E n \in g.nodes : n \in ReachableFrom(g, Children(g, n))

DistinctStarts(g) ==
    \A a, b \in Terminals(g) : a # b => g.attr[a].start # g.attr[b].start

\* The proper ancestors of x in a tree, the parent first.
RECURSIVE TreeAnc(_, _)
TreeAnc(g, x) ==
    IF g.pred[x] = <<>> THEN <<>> ELSE <<g.pred[x][1]>> \o TreeAnc(g, g.pred[x][1])

Subtree(g, a) == {x \in g.nodes : x = a \/ a \in Range(TreeAnc(g, x))}

LeftTerminals(g, a, n) ==
    {t \in Subtree(g, a) \cap Terminals(g) : g.attr[t].start < g.attr[n].start}

\* C1: for a constituency tree with n >= 1 terminals of pairwise distinct
\* start_byte, enrich_ast_with_deps raises nothing and get_dependency_tree
\* returns a tree over exactly the n terminals: n-1 edges, the terminal with
\* the smallest start_byte the only node of in-degree 0, in-degree 1 for
\* every other terminal, and no cycle.
C1_DependencyTreeIsTree ==
    LET T == Terminals(G)
        n == Cardinality(T)
    IN  (n >= 1 /\ DistinctStarts(G)) =>
            /\ ~(pc = "failed" /\ mst = <<>>)
            /\ pc = "dep" =>
                   LET first == CHOOSE t \in T : \A x \in T : G.attr[t].start <= G.attr[x].start
                   IN  /\ dep.nodes = T
                       /\ Cardinality(Edges(dep)) = n - 1
                       /\ InDegree(dep, first) = 0
                       /\ \A t \in T \ {first} : InDegree(dep, t) = 1
                       /\ ~HasCycle(dep)

C1_Witness ==
    /\ pc = "dep"
    /\ DistinctStarts(G)
    /\ Cardinality(dep.nodes) >= 3
    /\ \E t \in dep.nodes : InDegree(dep, t) = 1 /\ Children(dep, t) # {}

\* C2: for a terminal n other than the dependency root that has a terminal
\* to its left, select_head(G, n) is a terminal of smallest start_byte among
\* the terminal descendants with start_byte < n.start_byte of A, the lowest
\* proper ancestor of n whose subtree holds such a terminal.
C2_SelectHeadLeftmostOfLowestAncestor ==
    pc = "head" =>
        LET n == head.n
            anc == TreeAnc(G, n)
            good == {i \in 1..Len(anc) : LeftTerminals(G, anc[i], n) # {}}
        IN  good # {} =>
                LET A == anc[Min(good)]
                IN  /\ head.h \in LeftTerminals(G, A, n)
                    /\ \A t \in LeftTerminals(G, A, n) :
                           G.attr[head.h].start <= G.attr[t].start

C2_Witness ==
    /\ pc = "head"
    /\ head.h \in G.nodes
    /\ LeftTerminals(G, G.pred[head.n][1], head.n) = {}
    /\ \E t \in Terminals(G) : /\ G.attr[t].start < G.attr[head.n].start
                               /\ G.attr[head.h].start < G.attr[t].start

ChainMatrix == [i \in 0..2 |-> [j \in 0..2 |-> IF i > j THEN i - j ELSE j - i]]

RECURSIVE TotalWeight(_)
TotalWeight(es) == IF es = <<>> THEN 0 ELSE Head(es).weight + TotalWeight(Tail(es))

MstPairs == {{mst.edges[k].u, mst.edges[k].v} : k \in 1..Len(mst.edges)}

\* C3: get_tree_from_distances applied to the hop-count matrix of a tree T
\* over n tokens returns n-1 edges of the same total weight as T (one per
\* edge of T); for the chain d(a,b)=1, d(b,c)=1, d(a,c)=2 it returns the
\* edges (a,b) and (b,c) and not (a,c).
C3_RoundTripKeepsEdgeCountAndWeight ==
    pc = "mst" =>
        LET n == Len(dist.tokens)
        IN  /\ Len(mst.edges) = n - 1
            /\ Len(mst.edges) = Cardinality(Edges(dep))
            /\ TotalWeight(mst.edges) = Cardinality(Edges(dep))
            /\ dist.distance = ChainMatrix => MstPairs = {{0, 1}, {1, 2}}

C3_Witness ==
    /\ pc = "mst"
    /\ dist.distance = ChainMatrix
    /\ MstPairs = {{0, 1}, {1, 2}}
    /\ {0, 2} \notin MstPairs

\* C4: get_uas(T, T) returns 1.0 for every tree T, the tree of a single
\* token without edges included.
C4_UasOfTreeWithItselfIsOne ==
    (pc \in {"uas", "failed"} /\ mst # <<>>) =>
        /\ uas.err = "none"
        /\ uas.count = uas.i

\* C5: remove_useless_non_terminals applied to its own output returns the
\* same nodes, node attributes, edges and edge labels.
C5_RemoveUselessIdempotent ==
    pc = "useless2" =>
        /\ g2.nodes = g1.nodes
        /\ g2.attr = g1.attr
        /\ Edges(g2) = Edges(g1)
        /\ g2.label = g1.label

C5_Witness ==
    /\ pc = "useless2"
    /\ Cardinality(G.nodes \ g1.nodes) >= 2
    /\ NonTerminals(g1) # {}
    /\ g2 = g1

IsStringType(t) == t = "string" \/ t = "interpreted_string_literal"

WasStringNonTerminal(g, n) == IsStringType(g.attr[n].type) /\ ~g.attr[n].is_terminal

\* C6: a step of solve_string_problems leaves every non-terminal of a string
\* type that was not below another one in the graph, terminal, with its
\* span, and without anything that was below it.
C6_StringCollapsed ==
    [][(pc = "built" /\ pc' = "ast") =>
         \A n \in G.nodes :
            (/\ WasStringNonTerminal(G, n)
             /\ \A a \in Range(TreeAnc(G, n)) : ~WasStringNonTerminal(G, a))
            => /\ n \in G'.nodes
               /\ G'.attr[n].is_terminal
               /\ G'.attr[n].start = G.attr[n].start
               /\ G'.attr[n].end = G.attr[n].end
               /\ G'.attr[n].type = G.attr[n].type
               /\ Children(G', n) = {}
               /\ G'.succ[n] = <<>>
               /\ (Subtree(G, n) \ {n}) \cap G'.nodes = {}]_vars

C6_Witness ==
    /\ pc = "ast"
    /\ \E n \in G.nodes :
          /\ IsStringType(G.attr[n].type)
          /\ G.attr[n].is_terminal
          /\ G.succ[n] = <<>>
          /\ Cardinality(PrimDesc(prim, n)) >= 3
          /\ G.attr[n].end = PrimEnd(prim, n)
          /\ G.nodes \cap PrimDesc(prim, n) = {n}

TerminalBelow(g, n) == (Subtree(g, n) \ {n}) \cap Terminals(g) # {}

C8_OutputIsSingleTree ==
    (pc = "useless" /\ Terminals(G) # {}) =>
        LET roots == {n \in g1.nodes : InDegree(g1, n) = 0}
        IN  /\ Cardinality(roots) = 1
            /\ \A n \in g1.nodes \ roots : InDegree(g1, n) = 1
            /\ \A x \in roots : ReachableFrom(g1, {x}) = g1.nodes
            /\ Terminals(G) \subseteq g1.nodes
            /\ \A n \in G.nodes \ g1.nodes : \A v \in Children(G, n) \cap g1.nodes :
                   G.pred[n] # <<>> /\ G.pred[n][1] \in g1.nodes
                   => <<G.pred[n][1], v>> \in Edges(g1)

\* C9: every pass of the while loop of remplace_non_terminals removes at
\* least one non-terminal, so that the loop ends in a graph without
\* non-terminals.
C9_EveryPassRemovesANonTerminal ==
    pc = "remplace" =>
        Cardinality(NonTerminals(r)) + iters <= Cardinality(NonTerminals(r0))

Pure(g) ==
    {n \in NonTerminals(g) : Children(g, n) # {} /\ Children(g, n) \subseteq Terminals(g)}

\* The children the claim lets a pure non-terminal promote.
Promotable(g, n, cf) ==
    IF g.attr[n].type \in DOMAIN cf
    THEN {m \in Children(g, n) : \A v \in Children(g, n) : g.attr[v].start <= g.attr[m].start}
    ELSE {m \in Children(g, n) : \A v \in Children(g, n) : g.attr[m].start <= g.attr[v].start}

PromotedGraph(g, h, cf) ==
    \E mm \in [Pure(g) -> g.nodes] :
        LET kept == {e \in Edges(g) : e[1] \notin Pure(g) /\ e[2] \notin Pure(g)}
            up == {e \in Edges(g) : e[2] \in Pure(g)}
            down == {e \in Edges(g) : e[1] \in Pure(g) /\ e[2] # mm[e[1]]}
        IN  /\ \A n \in Pure(g) : mm[n] \in Promotable(g, n, cf)
            /\ h.nodes = g.nodes \ Pure(g)
            /\ \A x \in h.nodes : h.attr[x] = g.attr[x]
            /\ Edges(h) = kept \cup {<<e[1], mm[e[2]]>> : e \in up}
                               \cup {<<mm[e[1]], e[2]>> : e \in down}
            /\ \A e \in kept : h.label[e] = g.label[e]
            /\ \A e \in up : h.label[<<e[1], mm[e[2]]>>] = g.label[e]
            /\ \A e \in down :
                   h.label[<<mm[e[1]], e[2]>>] = <<g.attr[e[1]].type>> \o g.label[e]

\* C10: one pass of the while loop of remplace_non_terminals removes every
\* pure non-terminal n, gives its promoted child m (the child the rule of n's
\* type chooses, else a child of smallest start_byte) n's parent edge with its
\* attributes, gives every other child v an edge m->v labelled n's type, then
\* '-' and the label of n->v if it had one, and changes nothing else.
C10_PassPromotesPureNonTerminals ==
    [][(pc = "remplace" /\ iters' = iters + 1) => PromotedGraph(r, r', conf)]_vars

C10_Witness ==
    /\ pc = "remplace"
    /\ iters = 2
    /\ \E e \in Edges(r) : Len(r.label[e]) = 2
    /\ \E n \in NonTerminals(r0) : r0.attr[n].type \in DOMAIN conf


----------------------------------------------------------------------------
\* Some node of the primitive parse tree has the type of a syntax error.
PrimHasError == \E i \in 0..(prim.n - 1) : prim.type[i] = ErrorType

\* C11: has_error on the graph code2ast returned is true exactly when some
\* node of the primitive parse tree has type 'ERROR', wherever that node sits,
\* inside the subtree of a string literal included.
C11_HasErrorIffPrimitiveError ==
    pc = "checked" => (has_err <=> PrimHasError)


----------------------------------------------------------------------------
\* C12: in the graph code2ast returns, after the build, the removal of Go's
\* newline tokens and the collapse of the strings, every node, the root
\* included, has is_terminal true exactly when it has no children.
C12_TerminalIffNoChildren ==
    pc = "ast" => \A n \in G.nodes : G.attr[n].is_terminal <=> (G.succ[n] = <<>>)

----------------------------------------------------------------------------
\* C13: the result of solve_string_problems (the nodes left, the edges, the
\* is_terminal flags and the spans) is the same for every order the
\* string-typed non-terminals are processed in, one of them being below
\* another included.
C13_StringCollapseOrderIndependent ==
    (pc = "ast" /\ alt.g # EmptyGraph) => alt.g = G

\* The later of two nested string literals was processed first.
C13_Witness ==
    /\ pc = "ast"
    /\ Len(alt.order) >= 2
    /\ alt.order[1] \in ReachableFrom(build_graph(prim), {alt.order[2]}) \ {alt.order[2]}
    /\ alt.g = G

----------------------------------------------------------------------------
\* The graphs the while loop of remove_useless_non_terminals goes through.
RECURSIVE RemovalSteps(_)
RemovalSteps(g) ==
    IF Len(useless_non_terminals(g)) # 0
    THEN <<g>> \o RemovalSteps(remove_first_useless(g))
    ELSE <<g>>

\* The label of u->n if present, then n's type, then the label of n->v if
\* present.
ExpectedLabel(g, u, n, v) == g.label[<<u, n>>] \o <<g.attr[n].type>> \o g.label[<<n, v>>]

\* The removal of the first useless non-terminal n of g, with parent u, gave
\* gn: what the edge u->v holds for each child v of n.
LabelsOfRemoval(g, gn) ==
    LET n == useless_non_terminals(g)[1]
    IN  g.pred[n] # <<>> =>
           \A v \in Range(g.succ[n]) :
               gn.label[<<g.pred[n][1], v>>] = ExpectedLabel(g, g.pred[n][1], n, v)

\* C14: when remove_useless_non_terminals removes a non-terminal n with parent
\* u, each new edge u->v to a child v of n is labelled with the label of u->n
\* if present, then n's type, then the label of n->v if present, and with
\* nothing else: no part of the label of another child's edge.
C14_NewEdgeLabel ==
    pc = "useless" =>
        LET steps == RemovalSteps(G)
        IN  \A k \in 1..(Len(steps) - 1) : LabelsOfRemoval(steps[k], steps[k+1])

----------------------------------------------------------------------------
\* C15: when two terminals of the constituency tree share a start_byte, be it
\* the smallest of the tree or not, enrich_ast_with_deps ends in an error and
\* not with a head for every terminal.
C15_SharedStartIsAnError ==
    (pc \in {"enriched", "failed"} /\ ~DistinctStarts(G)) =>
        (pc = "failed" /\ err = "IndexError")

----------------------------------------------------------------------------
\* The dependency edges enrich_ast_with_deps added to g.
DependencyEdges(g) == {e \in Edges(g) : g.label[e] = <<"dependency">>}

\* The constituency tree code2ast returned, before any dependency edge.
ConstituencyTree == solve_string_problems(code2ast_branch(prim, lang))

\* C16: enrich_ast_with_deps searches the heads in the graph it adds the
\* dependency edges to, and yet, for a constituency tree of pairwise distinct
\* start_byte, the head of each terminal is the head select_head computes on
\* the tree without any dependency edge, and the set of dependency edges is
\* the same for every order the non-root terminals are processed in.
C16_HeadsIndependentOfAddedEdges ==
    (pc = "enriched" /\ DistinctStarts(G)) =>
        /\ DependencyEdges(G) =
              {<<select_head(ConstituencyTree, n), n>> :
                  n \in Terminals(G) \ {get_root_dep_tree(ConstituencyTree)}}
        /\ alt_dep.g # EmptyGraph =>
              /\ alt_dep.err = "none"
              /\ DependencyEdges(alt_dep.g) = DependencyEdges(G)

\* Another order than the code's was taken, and a terminal processed before
\* its head, which had a dependency edge of its own by then.
C16_Witness ==
    /\ pc = "enriched"
    /\ DistinctStarts(G)
    /\ alt_dep.g # EmptyGraph
    /\ \E i, j \in 1..Len(alt_dep.order) :
          /\ i < j
          /\ alt_dep.order[i] > alt_dep.order[j]
    /\ \E e, f \in DependencyEdges(G) : e[2] = f[1]
    /\ DependencyEdges(alt_dep.g) = DependencyEdges(G)

====
